---- MODULE Spec2Model ----
(***************************************************************************)
(* G2Net_CNN1D_GeM_AdamW_Bandpass.ipynb: the k-fold training, out-of-fold  *)
(* scoring and test inference orchestrator, and the inference entry point  *)
(* that works from the persisted results directory.                        *)
(*                                                                         *)
(* Keras/scikit-learn/numpy are libraries: training is an opaque step      *)
(* whose per-epoch val_AUC is an input, a model's weights are named by the *)
(* fold and epoch that produced them, and a forward pass is a fixed        *)
(* deterministic function of the weights and the sample.                   *)
(***************************************************************************)
EXTENDS Integers, Sequences, FiniteSets, TLC

VARIABLES
    config,           \* the Config object (a dict with attribute access)
    train_files,      \* len(data.train_files)
    dir_exists,       \* the results path exists on disk
    dir_prior,        \* entries the results path held before the run
    config_pkl,       \* <<>> or <<config>>: results_path/config.pkl
    config_json,      \* <<>> or <<attrs>>: results_path/config.json
    log_file,         \* results_path/<name>.log exists
    checkpoints,      \* fold index -> weights saved under checkpoint_fold<k>
    submission,       \* <<>> or <<table>>: results_path/submission.csv
    pc,               \* position of train_K_folds_make_inference
    exc,              \* the exception that ended the run ("" when none)
    splits,           \* list(kf.split(data.train_files))
    loop_k,           \* k of enumerate(kf.split(...))
    model,            \* <<>> or <<weights>>: the model object inside train()
    best,             \* ModelCheckpoint.best (-1 stands for -inf)
    history,          \* history.history['val_AUC'] of the running fit
    oof_models, oof_model_paths, oof_labels, oof_preds, k_fold_scores,
    oof_score,        \* <<>> or <<score>>
    test_preds_df,    \* <<>> or <<table>>: what the run returned
    resumed,          \* <<>> or <<outcome>> of load_results_make_inference
    np_rng,           \* numpy's global RandomState
    fa_runs,          \* results of successive executions of the fold assignment
    data_filter,      \* <<>> or <<object>>: data.filter, the SignalFilter
    X,                \* the batch of waveforms handed to filt
    filt_out,         \* <<>> or <<results>> of filt on X and on its records
    ds,               \* <<>> or <<dataset>>: what get_dataset last built
    invocation,       \* calls of train_K_folds_make_inference made so far
    partial           \* folds whose checkpoint directory is not fully written

vars == <<config, train_files, dir_exists, dir_prior, config_pkl, config_json,
          log_file, checkpoints, submission, pc, exc, splits, loop_k, model,
          best, history, oof_models, oof_model_paths, oof_labels, oof_preds,
          k_fold_scores, oof_score, test_preds_df, resumed, np_rng, fa_runs,
          data_filter, X, filt_out, ds, invocation, partial>>

----------------------------------------------------------------------------
(* Bounds of the model and constants of the program *)

MaxK == 3             \* config.K_fold ranges over 2..MaxK
MaxEpochs == 3        \* config.epochs
MaxAuc == 2           \* val_AUC of an epoch ranges over 0..MaxAuc
MaxProb == 4          \* a probability is p / MaxProb, p in 0..MaxProb
MaxShards == 6        \* shard counts of the fold-assignment specification
MaxSplits == 5        \* n_splits of the fold-assignment specification
MaxRuns == 2          \* executions of the fold assignment that are compared
MaxDraws == 2         \* draws other code takes from numpy's global generator
RecordsPerShard == 2  \* records held by one record file
Cores == 2            \* what tf.data.AUTOTUNE resolves num_parallel_reads to
Channels == 2         \* channels of a waveform (3 in the record files)
Samples == 3          \* samples of a channel (4096 in the record files)
MaxBatch == 2         \* records of a batch handed to filt
MaxWave == 3          \* waveforms are drawn from 0..MaxWave
MaxInvocations == 2   \* calls of train_K_folds_make_inference on one path
NumTrainFiles == 20
NumTestFiles == 10
NumThresholds == 200

Seeds == {42, 7, 1}

----------------------------------------------------------------------------
(* Helpers *)

Range(s) == {s[i] : i \in DOMAIN s}

RECURSIVE SumSeq(_)
SumSeq(s) == IF s = <<>> THEN 0 ELSE Head(s) + SumSeq(Tail(s))

RECURSIVE Flatten(_)
Flatten(ss) == IF ss = <<>> THEN <<>> ELSE Head(ss) \o Flatten(Tail(ss))

RECURSIVE GCD(_, _)
GCD(a, b) == IF b = 0 THEN a ELSE GCD(b, a % b)

\* np.ndarray of indices selected by a boolean mask: ascending order
RECURSIVE SortedSeq(_)
SortedSeq(S) ==
    IF S = {} THEN <<>>
    ELSE LET m == CHOOSE x \in S : \A y \in S : x <= y
         IN <<m>> \o SortedSeq(S \ {m})

EmptyFn == [x \in {} |-> {}]

----------------------------------------------------------------------------
(* Fold assignment: KFold(n_splits, shuffle=True, random_state=seed).split *)

\* One step of the generator behind a RandomState (a small linear
\* congruential generator stands for MT19937).
LcgNext(s) == (s * 75 + 74) % 65537

\* np.random.RandomState(seed)
RandomState(seed) == seed % 65537

\* a generator taken from numpy's global state (random_state=None)
CheckRandomStateGlobal(random_state, global) == global

\* sklearn's check_random_state: an int seeds a fresh RandomState, whatever
\* the state of numpy's global generator
CheckRandomState(random_state, global) == RandomState(random_state)

Swap(x, i, j) == [x EXCEPT ![i] = x[j], ![j] = x[i]]

\* RandomState.shuffle: for i in reversed(range(1, n)): j = interval(i); swap
RECURSIVE RngShuffle(_, _, _)
RngShuffle(x, i, s) ==
    IF i < 1 THEN x
    ELSE LET s2 == LcgNext(s)
             j == s2 % (i + 1)
         IN RngShuffle(Swap(x, i + 1, j + 1), i - 1, s2)

\* fold_sizes = full(n_splits, n // n_splits); fold_sizes[:n % n_splits] += 1
FoldSize(n, K, f) == (n \div K) + (IF f < n % K THEN 1 ELSE 0)

\* the slices placed as if every fold had n // n_splits indices
FoldStartNoRemainder(n, K, f) == f * (n \div K)

\* current: where fold f's slice of the shuffled indices starts
FoldStart(n, K, f) == SumSeq([g \in 1..f |-> FoldSize(n, K, g - 1)])

\* indices[current:current + fold_size] of fold f (0-based)
TestIndices(perm, n, K, f) ==
    {perm[i] : i \in (FoldStart(n, K, f) + 1)..(FoldStart(n, K, f) + FoldSize(n, K, f))}

\* list(enumerate(kf.split(files))): entry f+1 is (train_idx, val_idx) of
\* fold f, each the indices picked by a boolean mask, so in ascending order.
\* KFold refuses n_splits < 2 and n_splits > n_samples with a ValueError,
\* which is the empty list here.
KFoldSplit(n, K, seed, global) ==
    IF K < 2 \/ K > n THEN <<>>
    ELSE LET perm == RngShuffle([i \in 1..n |-> i - 1], n - 1,
                                CheckRandomState(seed, global))
         IN [f \in 1..K |->
               LET test == TestIndices(perm, n, K, f - 1)
               IN [train |-> SortedSeq((0..(n - 1)) \ test),
                   val |-> SortedSeq(test)]]

----------------------------------------------------------------------------
(* SignalFilter.  Samples are integers; filter_norm is a fixed-point number *)
(* in units of 1/NormUnit; small integer second-order sections stand for    *)
(* the coefficients signal.butter computes.                                 *)

NormUnit == 4

\* config.filter of the configuration cell: a float scaling, bandpass with
\* both cutoffs (the frequencies scaled down: f_lo < f_hi < sampling_rate/2)
BandpassFilter ==
    [scaling |-> [type |-> "float", value |-> <<2>>],
     filter_type |-> "bandpass", filter_order |-> 2, f_lo |-> 1, f_hi |-> <<3>>,
     sampling_rate |-> 8]

\* the alternative the configuration cell keeps in its comments: a scaling
\* of one factor per channel, np.array([...]).reshape(-1, 1), highpass, f_hi=None
HighpassFilter ==
    [scaling |-> [type |-> "ndarray", value |-> [c \in 1..Channels |-> c]],
     filter_type |-> "highpass", filter_order |-> 3, f_lo |-> 1, f_hi |-> <<>>,
     sampling_rate |-> 8]

\* str.lower() on the spellings of filter_type that are explored
Lower(str) ==
    CASE str = "BandPass" -> "bandpass"
      [] str = "HighPass" -> "highpass"
      [] OTHER -> str

\* floor of the square root
ISqrt(n) == CHOOSE r \in 0..n : r * r <= n /\ (r + 1) * (r + 1) > n

\* signal.tukey(M, 0.1): 0 at both ends, flat in between
tukey(M) ==
    [type |-> "ndarray", value |-> [t \in 1..M |-> IF t = 1 \/ t = M THEN 0 ELSE 1]]

\* signal.butter(N, Wn, btype, output='sos'): ceil(N/2) sections for a
\* highpass, N sections for a bandpass, each [b0, b1, b2], [a0 = 1, a1, a2]
butter(N, Wn, btype) ==
    IF Lower(btype) = "bandpass"
    THEN [i \in 1..N |-> [b |-> <<1, 0, -1>>, a |-> <<1, -(Wn[1] % 2), Wn[2] % 2>>]]
    ELSE [i \in 1..((N + 1) \div 2) |->
            [b |-> <<1, -2, 1>>, a |-> <<1, -(Wn[1] % 2), 0>>]]

\* SignalFilter.__init__(**config.filter): the object, or the exception that
\* leaves the constructor
SignalFilter(f) ==
    IF Lower(f.filter_type) = "bandpass"
    THEN IF f.f_hi = <<>>
         THEN [error |-> "TypeError: unsupported operand type(s) for -"]
         ELSE IF ~(0 < f.f_lo /\ f.f_lo < f.f_hi[1]
                   /\ 2 * f.f_hi[1] < f.sampling_rate)
         THEN [error |-> "ValueError: Digital filter critical frequencies"]
         ELSE [error |-> "",
               scaling |-> f.scaling,
               filter_window |-> tukey(Samples),
               filter_norm |-> ISqrt((NormUnit * NormUnit * (f.f_hi[1] - f.f_lo) * 2)
                                     \div f.sampling_rate),
               filter |-> butter(f.filter_order, <<f.f_lo, f.f_hi[1]>>, f.filter_type)]
    ELSE IF Lower(f.filter_type) = "highpass"
    THEN IF ~(0 < f.f_lo /\ 2 * f.f_lo < f.sampling_rate)
         THEN [error |-> "ValueError: Digital filter critical frequencies"]
         ELSE [error |-> "",
               scaling |-> f.scaling,
               filter_window |-> [type |-> "float", value |-> <<1>>],
               filter_norm |-> NormUnit,
               filter |-> butter(f.filter_order, <<f.f_lo>>, f.filter_type)]
    ELSE [error |-> "ValueError: Unknown filter type."]

\* numpy broadcasting of a factor against one axis of X: a float applies to
\* every index; an array (or the nested list tolist() makes of it, which
\* numpy converts back) has one entry per index of the axis
Broadcast(v, i) == IF v.type = "float" THEN v.value[1] ELSE v.value[i]

\* x[t - d], zero before the first sample
Delayed(x, t, d) == IF t - d >= 1 THEN x[t - d] ELSE 0

\* one second-order section over one row, zero initial conditions:
\* y[t] = b0 x[t] + b1 x[t-1] + b2 x[t-2] - a1 y[t-1] - a2 y[t-2]
RECURSIVE SectionRow(_, _, _)
SectionRow(sec, x, y) ==
    IF Len(y) = Len(x) THEN y
    ELSE LET t == Len(y) + 1
         IN SectionRow(sec, x,
               Append(y, sec.b[1] * x[t] + sec.b[2] * Delayed(x, t, 1)
                         + sec.b[3] * Delayed(x, t, 2)
                         - sec.a[2] * Delayed(y, t, 1)
                         - sec.a[3] * Delayed(y, t, 2)))

\* the cascade of the sections over one row
RECURSIVE SosRow(_, _)
SosRow(sos, x) ==
    IF sos = <<>> THEN x ELSE SosRow(Tail(sos), SectionRow(Head(sos), x, <<>>))

\* the filter run along axis 0, the records of the batch, in place of the
\* time axis
sosfilt_AlongBatch(sos, x) ==
    [b \in DOMAIN x |->
       [c \in DOMAIN x[b] |->
          [t \in DOMAIN x[b][c] |->
             SosRow(sos, [b2 \in DOMAIN x |-> x[b2][c][t]])[b]]]]

\* signal.sosfilt(sos, x) with its default axis=-1: every row of every
\* record is filtered along time, on its own
sosfilt(sos, x) ==
    [b \in DOMAIN x |-> [c \in DOMAIN x[b] |-> SosRow(sos, x[b][c])]]

\* SignalFilter.filt(X), X of shape (batch, channels, samples)
filt(self, x) ==
    LET x1 == [b \in DOMAIN x |->
                 [c \in DOMAIN x[b] |->
                    [t \in DOMAIN x[b][c] |->
                       Broadcast(self.scaling, c) * x[b][c][t]
                       * Broadcast(self.filter_window, t)]]]
        x2 == sosfilt(self.filter, x1)
    IN [b \in DOMAIN x2 |->
          [c \in DOMAIN x2[b] |->
             [t \in DOMAIN x2[b][c] |-> x2[b][c][t] * self.filter_norm]]]

----------------------------------------------------------------------------
(* Data.get_dataset *)

\* the r-th record of train<shard>.tfrecords, decoded: features and label
TrainRecord(shard, r) ==
    [x |-> shard * RecordsPerShard + r, y |-> (shard + r) % 2]

\* the r-th record of test<file>.tfrecords
TestRecord(file, r) ==
    [x |-> (NumTrainFiles + file) * RecordsPerShard + r]

\* TFRecordDataset(files, num_parallel_reads): one file after the other when
\* num_parallel_reads is 1, otherwise a round robin over cycle = num_parallel_reads
\* open files, one record at a time, an exhausted file replaced by the next.
\* open: <<file position in files, next record>> of the open files.
RECURSIVE Interleave(_, _, _, _, _)
Interleave(files, open, slot, nextFile, out) ==
    IF open = <<>> THEN out
    ELSE LET s == IF slot > Len(open) THEN 1 ELSE slot
             f == open[s][1]
             r == open[s][2]
             out2 == Append(out, <<files[f], r>>)
         IN IF r + 1 < RecordsPerShard
            THEN Interleave(files, [open EXCEPT ![s] = <<f, r + 1>>], s + 1,
                            nextFile, out2)
            ELSE IF nextFile <= Len(files)
            THEN Interleave(files, [open EXCEPT ![s] = <<nextFile, 0>>], s + 1,
                            nextFile + 1, out2)
            ELSE Interleave(files,
                            [i \in 1..(Len(open) - 1) |->
                               IF i < s THEN open[i] ELSE open[i + 1]],
                            s, nextFile, out2)

ReadRecords(files, num_parallel_reads) ==
    LET c == IF num_parallel_reads < Len(files) THEN num_parallel_reads
             ELSE Len(files)
    IN Interleave(files, [i \in 1..c |-> <<i, 0>>], 1, c + 1, <<>>)

\* get_dataset(train_or_test, shuffle=False, file_indices): the decoded
\* records in the order the dataset yields them.  (A shuffled dataset feeds
\* only fit, whose outcome is an input of the model.)
GetDataset(train_or_test, file_indices) ==
    LET ids == ReadRecords(file_indices, IF train_or_test THEN Cores ELSE 1)
    IN [i \in 1..Len(ids) |->
          IF train_or_test THEN TrainRecord(ids[i][1], ids[i][2])
          ELSE TestRecord(ids[i][1], ids[i][2])]

AllTestFiles == [i \in 1..NumTestFiles |-> i - 1]

----------------------------------------------------------------------------
(* The model's forward pass, get_score, oof_predict, make_inference *)

\* get_model(): freshly initialised weights inside train() for fold k
FreshWeights(k) == [fold |-> k, epoch |-> 0]

\* model(X) / model.predict: the probability (in units of 1/MaxProb) the
\* weights w give the sample with features x
Predict(w, x) == (w.fold * 3 + w.epoch * 5 + x * 7 + (x \div 3)) % (MaxProb + 1)

\* y_pred > thresholds[i], thresholds = [-eps, 1/(n-1), ..., (n-2)/(n-1), 1+eps]
AboveThreshold(p, i) ==
    IF i = 0 THEN TRUE
    ELSE IF i = NumThresholds - 1 THEN FALSE
    ELSE p * (NumThresholds - 1) > i * MaxProb

\* a fraction in lowest terms
Fraction(num, den) ==
    IF den = 0 \/ num = 0 THEN [num |-> 0, den |-> 1]
    ELSE [num |-> num \div GCD(num, den), den |-> den \div GCD(num, den)]

\* sum over the threshold intervals lo..hi of (fp[i]-fp[i+1]) * (tp[i]+tp[i+1]),
\* split in halves
RECURSIVE RiemannSum(_, _, _, _)
RiemannSum(tp, fp, lo, hi) ==
    IF lo > hi THEN 0
    ELSE IF lo = hi THEN (fp[lo] - fp[lo + 1]) * (tp[lo] + tp[lo + 1])
    ELSE LET mid == (lo + hi) \div 2
         IN RiemannSum(tp, fp, lo, mid) + RiemannSum(tp, fp, mid + 1, hi)

\* update_state, per threshold i: the samples of one class whose prediction
\* is above thresholds[i]; byProb[u] counts the class's samples that were
\* given the probability u - 1
RECURSIVE CountAbove(_, _, _)
CountAbove(byProb, i, u) ==
    IF u > MaxProb + 1 THEN 0
    ELSE (IF AboveThreshold(u - 1, i) THEN byProb[u] ELSE 0)
         + CountAbove(byProb, i, u + 1)

CountsAbove(byProb) ==
    [i \in 0..(NumThresholds - 1) |-> CountAbove(byProb, i, 1)]

\* result: the interpolated area under the ROC curve, the sum of
\* (fpr[i] - fpr[i+1]) * (tpr[i] + tpr[i+1]) / 2, a rate with a zero
\* denominator being 0 (div_no_nan)
AucResult(tp, fp) ==
    Fraction(RiemannSum(tp, fp, 0, NumThresholds - 2), 2 * tp[0] * fp[0])

Buckets(y_true, y_pred, positive) ==
    [u \in 1..(MaxProb + 1) |->
       Cardinality({n \in DOMAIN y_true :
                      y_pred[n] = u - 1 /\ ((y_true[n] = 1) <=> positive)})]

\* the metric updated with y_true[1:], y_pred[1:]: the first sample left out
get_score_SkipsFirst(y_true, y_pred) ==
    CHOOSE auc \in
        {AucResult(tp, fp) :
           tp \in {CountsAbove(pos) :
                     pos \in {Buckets(Tail(y_true), Tail(y_pred), TRUE)}},
           fp \in {CountsAbove(neg) :
                     neg \in {Buckets(Tail(y_true), Tail(y_pred), FALSE)}}} :
        TRUE

\* get_score: tf.keras.metrics.AUC() (ROC, 200 thresholds), update_state on
\* all samples, then result.  (The singleton sets bind evaluated values.)
get_score(y_true, y_pred) ==
    CHOOSE auc \in
        {AucResult(tp, fp) :
           tp \in {CountsAbove(pos) : pos \in {Buckets(y_true, y_pred, TRUE)}},
           fp \in {CountsAbove(neg) : neg \in {Buckets(y_true, y_pred, FALSE)}}} :
        TRUE

\* oof_predict(model, val_data): labels, predictions and score of one fold
oof_predict(w, val_data) ==
    LET y_true == [i \in 1..Len(val_data) |-> val_data[i].y]
        y_pred == [i \in 1..Len(val_data) |-> Predict(w, val_data[i].x)]
    IN [val_y_true |-> y_true, val_y_pred |-> y_pred,
        val_score |-> get_score(y_true, y_pred)]

\* config.train_folds or range(config.K_fold)
FoldList(cfg) ==
    IF cfg.train_folds # <<>> THEN cfg.train_folds
    ELSE [i \in 1..cfg.K_fold |-> i - 1]

\* zip(config.train_folds or range(config.K_fold), models)
ZipFolds(cfg, models) ==
    LET folds == FoldList(cfg)
        n == IF Len(folds) < Len(models) THEN Len(folds) ELSE Len(models)
    IN [j \in 1..n |-> [k |-> folds[j], model |-> models[j]]]

\* .sum(axis=1) in place of .mean(axis=1)
MeanOfRowAsSum(row) == Fraction(SumSeq(row), 1)

\* np.concatenate(test_preds, axis=1).mean(axis=1) at one row
MeanOfRow(row) == Fraction(SumSeq(row), Len(row))

\* make_inference(config, models): the submission table, one row per id of
\* sample_submission.csv, the target the mean over the columns of test_preds
make_inference(cfg, models) ==
    LET test_data == GetDataset(FALSE, AllTestFiles)
        pairs == ZipFolds(cfg, models)
        test_preds == [j \in 1..Len(pairs) |->
                         [i \in 1..Len(test_data) |->
                            Predict(pairs[j].model, test_data[i].x)]]
    IN [i \in 1..Len(test_data) |->
          [id |-> i - 1,
           target |-> MeanOfRow([j \in 1..Len(pairs) |-> test_preds[j][i]])]]

----------------------------------------------------------------------------
(* The run: train_K_folds_make_inference(config) *)

\* config.train_folds of the runs that are explored: every fold, one fold, two
\* folds in ascending and in descending order, a repeated index, an index
\* that is no fold of the split, and only such an index
TrainFoldsInputs(K) ==
    {<<>>, <<0>>, <<1>>, <<0, 1>>, <<1, 0>>, <<0, 0, 1>>, <<0, K>>, <<K>>}

\* config.filter of the runs that are explored: the two of the configuration
\* cell, a filter family SignalFilter does not know, a bandpass without f_hi
FilterInputs ==
    {BandpassFilter, HighpassFilter,
     [BandpassFilter EXCEPT !.filter_type = "lowpass"],
     [BandpassFilter EXCEPT !.f_hi = <<>>]}

Configs(Ks, seeds, filters) ==
    {[name |-> "run", results_parent_path |-> "results/", results_path |-> "None",
      K_fold |-> K, train_folds |-> tf, epochs |-> MaxEpochs, seed |-> sd,
      filter |-> f] :
        K \in Ks, tf \in UNION {TrainFoldsInputs(K2) : K2 \in Ks}, sd \in seeds,
        f \in filters}

\* str(Path(config.results_parent_path).joinpath(config.name))
ResultsPath(cfg) == cfg.results_parent_path \o cfg.name

\* ndarray.tolist(); a float has no tolist: AttributeError, caught, pass
tolist(v) == IF v.type = "ndarray" THEN [v EXCEPT !.type = "list"] ELSE v

\* check_save_config, line 380: the config object as joblib.dump pickles it
ConfigWithPath(cfg) == [cfg EXCEPT !.results_path = ResultsPath(cfg)]

\* check_save_config, line 391: attrs is a new dict but attrs['filter'] is
\* config.filter itself, so the assignment lands in the config object
ConfigAfterSave(cfg) ==
    [ConfigWithPath(cfg) EXCEPT !.filter.scaling = tolist(@)]

\* the entries of the results directory
DirEntries ==
    dir_prior
    \cup (IF config_pkl # <<>> THEN {"config.pkl"} ELSE {})
    \cup (IF config_json # <<>> THEN {"config.json"} ELSE {})
    \cup (IF log_file THEN {"run.log"} ELSE {})
    \cup (IF DOMAIN checkpoints # {} THEN {"checkpoint_fold"} ELSE {})
    \cup (IF submission # <<>> THEN {"submission.csv"} ELSE {})

\* mkdir(parents=True, exist_ok=True) and no look at the directory's entries
NonEmptyResultsDirIgnored(exists, prior) == FALSE

\* check_save_config: any(p.iterdir()) after mkdir found the path existing
NonEmptyResultsDir(exists, prior) == exists /\ prior # {}

\* a monitor_op of np.greater_equal: an epoch that ties the best overwrites
MonitorOpGreaterEqual(current, sofar) == current >= sofar

\* ModelCheckpoint(monitor='val_AUC', save_best_only=True, mode='max'):
\* monitor_op is np.greater
MonitorOp(current, sofar) == current > sofar

\* train() returning the model object fit() has just finished with
TrainResultInMemory(inMemory, ckpts, k) == inMemory

\* what train() returns as the model: keras.models.load_model(checkpoint_path)
TrainResult(inMemory, ckpts, k) == ckpts[k]

\* the loop's filter: config.train_folds and k not in config.train_folds
Skipped(cfg, k) == cfg.train_folds # <<>> /\ k \notin Range(cfg.train_folds)

InitRun ==
    /\ config_pkl = <<>>
    /\ config_json = <<>>
    /\ log_file = FALSE
    /\ checkpoints = EmptyFn
    /\ submission = <<>>
    /\ pc = "start"
    /\ exc = ""
    /\ splits = <<>>
    /\ loop_k = 0
    /\ model = <<>>
    /\ best = -1
    /\ history = <<>>
    /\ oof_models = <<>>
    /\ oof_model_paths = <<>>
    /\ oof_labels = <<>>
    /\ oof_preds = <<>>
    /\ k_fold_scores = <<>>
    /\ oof_score = <<>>
    /\ test_preds_df = <<>>
    /\ resumed = <<>>
    /\ np_rng = [state |-> 0, draws |-> 0]
    /\ fa_runs = <<>>
    /\ data_filter = <<>>
    /\ X = <<>>
    /\ filt_out = <<>>
    /\ ds = <<>>
    /\ invocation = 1
    /\ partial = {}

Init ==
    /\ config \in {c \in Configs(2..MaxK, {42}, FilterInputs) :
                     c.train_folds \in TrainFoldsInputs(c.K_fold)}
    /\ train_files = NumTrainFiles
    /\ dir_exists \in BOOLEAN
    /\ dir_prior \in (IF dir_exists THEN {{}, {"prior.txt"}} ELSE {{}})
    /\ InitRun

diskVars == <<dir_exists, dir_prior, config_pkl, config_json, log_file,
              checkpoints, submission>>
fitVars == <<model, best, history>>
oofVars == <<oof_models, oof_model_paths, oof_labels, oof_preds, k_fold_scores>>
foldVars == <<np_rng, fa_runs, train_files>>
pipeVars == <<data_filter, X, filt_out, ds>>
procVars == <<invocation, partial>>

\* check_save_config raises ValueError("Non-empty results directory."), which
\* the except FileExistsError of the caller does not catch
RunConflict ==
    /\ pc = "start"
    /\ NonEmptyResultsDir(dir_exists, DirEntries)
    /\ config' = ConfigWithPath(config)
    /\ pc' = "raised"
    /\ exc' = "ValueError: Non-empty results directory."
    /\ UNCHANGED <<diskVars, splits, loop_k, fitVars, oofVars, oof_score,
                   test_preds_df, resumed, foldVars, pipeVars, procVars>>

\* check_save_config and get_logger, which write; then Data(config), whose
\* SignalFilter(**config.filter) raises
DataFails ==
    /\ pc = "start"
    /\ ~NonEmptyResultsDir(dir_exists, DirEntries)
    /\ SignalFilter(ConfigAfterSave(config).filter).error # ""
    /\ config' = ConfigAfterSave(config)
    /\ dir_exists' = TRUE
    /\ config_pkl' = <<ConfigWithPath(config)>>
    /\ config_json' = <<config'>>
    /\ log_file' = TRUE
    /\ pc' = "raised"
    /\ exc' = SignalFilter(config'.filter).error
    /\ UNCHANGED <<dir_prior, checkpoints, submission, splits, loop_k, fitVars,
                   oofVars, oof_score, test_preds_df, resumed, foldVars,
                   pipeVars, procVars>>

\* check_save_config, get_logger, Data(config), KFold(...).split
RunStart ==
    /\ pc = "start"
    /\ ~NonEmptyResultsDir(dir_exists, DirEntries)
    /\ SignalFilter(ConfigAfterSave(config).filter).error = ""
    /\ config' = ConfigAfterSave(config)
    /\ dir_exists' = TRUE
    /\ config_pkl' = <<ConfigWithPath(config)>>
    /\ config_json' = <<config'>>
    /\ log_file' = TRUE
    /\ data_filter' = <<SignalFilter(config'.filter)>>
    /\ splits' = KFoldSplit(train_files, config.K_fold, config.seed, np_rng.state)
    /\ loop_k' = 0
    /\ pc' = "loop"
    /\ UNCHANGED <<dir_prior, checkpoints, submission, exc, fitVars, oofVars,
                   oof_score, test_preds_df, resumed, foldVars, X, filt_out, ds,
                   procVars>>

\* if config.train_folds and k not in config.train_folds: continue
SkipFold ==
    /\ pc = "loop"
    /\ loop_k < Len(splits)
    /\ Skipped(config, loop_k)
    /\ loop_k' = loop_k + 1
    /\ UNCHANGED <<config, diskVars, pc, exc, splits, fitVars, oofVars,
                   oof_score, test_preds_df, resumed, foldVars,
                   pipeVars, procVars>>

\* the datasets of fold k are built and train() starts: get_model(), compile,
\* a new ModelCheckpoint whose best is -inf
StartFold ==
    /\ pc = "loop"
    /\ loop_k < Len(splits)
    /\ ~Skipped(config, loop_k)
    /\ model' = <<FreshWeights(loop_k)>>
    /\ best' = -1
    /\ history' = <<>>
    /\ pc' = "fit"
    /\ UNCHANGED <<config, diskVars, exc, splits, loop_k, oofVars, oof_score,
                   test_preds_df, resumed, foldVars,
                   pipeVars, procVars>>

\* one epoch of model.fit and the checkpoint callback at its end
Epoch ==
    /\ pc = "fit"
    /\ Len(history) < config.epochs
    /\ \E val_AUC \in 0..MaxAuc :
         LET w == [fold |-> loop_k, epoch |-> Len(history) + 1]
         IN /\ model' = <<w>>
            /\ history' = Append(history, val_AUC)
            /\ IF MonitorOp(val_AUC, best)
               THEN /\ best' = val_AUC
                    /\ checkpoints' = (loop_k :> w) @@ checkpoints
               ELSE UNCHANGED <<best, checkpoints>>
    /\ UNCHANGED <<config, dir_exists, dir_prior, config_pkl, config_json,
                   log_file, submission, pc, exc, splits, loop_k, oofVars,
                   oof_score, test_preds_df, resumed, foldVars,
                   pipeVars, procVars>>

\* the loop body wrapped in try/except/continue: the failed fold is left out
TrainFailsSkipsFold ==
    /\ pc = "fit"
    /\ Len(history) < config.epochs
    /\ pc' = "loop"
    /\ loop_k' = loop_k + 1
    /\ exc' = "TrainingFailure"
    /\ UNCHANGED <<config, diskVars, splits, fitVars, oofVars, oof_score,
                   test_preds_df, resumed, foldVars,
                   pipeVars, procVars>>

\* an exception inside model.fit: nothing in train() or in the loop catches it
TrainFails ==
    /\ pc = "fit"
    /\ Len(history) < config.epochs
    /\ pc' = "raised"
    /\ exc' = "TrainingFailure"
    /\ UNCHANGED <<config, diskVars, splits, loop_k, fitVars, oofVars,
                   oof_score, test_preds_df, resumed, foldVars,
                   pipeVars, procVars>>

\* load_model and the return of train() as soon as a checkpoint exists,
\* while epochs of the fit are still to come
TrainReturnDuringFit ==
    /\ pc = "fit"
    /\ Len(history) >= 1
    /\ loop_k \notin partial
    /\ model' = <<TrainResult(model[1], checkpoints, loop_k)>>
    /\ oof_models' = Append(oof_models, model'[1])
    /\ oof_model_paths' = Append(oof_model_paths, loop_k)
    /\ best' = -1
    /\ history' = <<>>
    /\ pc' = "reloaded"
    /\ UNCHANGED <<config, diskVars, exc, splits, loop_k, oof_labels,
                   oof_preds, k_fold_scores, oof_score, test_preds_df,
                   resumed, foldVars, pipeVars, procVars>>

\* fit is over: train() reloads the checkpoint and returns; the loop appends
\* the model and its path.  (train_history.csv, written into the checkpoint
\* directory, is a log and is not part of the state.)
TrainReturn ==
    /\ pc = "fit"
    /\ Len(history) = config.epochs
    /\ loop_k \notin partial
    /\ model' = <<TrainResult(model[1], checkpoints, loop_k)>>
    /\ oof_models' = Append(oof_models, model'[1])
    /\ oof_model_paths' = Append(oof_model_paths, loop_k)
    /\ best' = -1
    /\ history' = <<>>
    /\ pc' = "reloaded"
    /\ UNCHANGED <<config, diskVars, exc, splits, loop_k, oof_labels,
                   oof_preds, k_fold_scores, oof_score, test_preds_df,
                   resumed, foldVars,
                   pipeVars, procVars>>

\* oof_predict on the fold's validation dataset and the three appends
OofPredict ==
    /\ pc = "reloaded"
    /\ LET r == oof_predict(model[1], GetDataset(TRUE, splits[loop_k + 1].val))
       IN /\ oof_labels' = Append(oof_labels, r.val_y_true)
          /\ oof_preds' = Append(oof_preds, r.val_y_pred)
          /\ k_fold_scores' = Append(k_fold_scores, r.val_score)
    /\ loop_k' = loop_k + 1
    /\ model' = <<>>
    /\ pc' = "loop"
    /\ UNCHANGED <<config, diskVars, exc, splits, best, history, oof_models,
                   oof_model_paths, oof_score, test_preds_df, resumed, foldVars,
                   pipeVars, procVars>>

\* the concat and get_score indented into the loop body: scored after any fold
AggregateInsideLoop ==
    /\ pc = "loop"
    /\ oof_labels # <<>>
    /\ oof_score' = <<get_score(Flatten(oof_labels), Flatten(oof_preds))>>
    /\ pc' = "inference"
    /\ UNCHANGED <<config, diskVars, exc, splits, loop_k, fitVars, oofVars,
                   test_preds_df, resumed, foldVars,
                   pipeVars, procVars>>

\* after the loop: tf.concat of the blocks and get_score (the lists of blocks
\* are kept here; the code rebinds the names to the concatenations)
Aggregate ==
    /\ pc = "loop"
    /\ loop_k = Len(splits)
    /\ oof_labels # <<>>
    /\ oof_score' = <<get_score(Flatten(oof_labels), Flatten(oof_preds))>>
    /\ pc' = "inference"
    /\ UNCHANGED <<config, diskVars, exc, splits, loop_k, fitVars, oofVars,
                   test_preds_df, resumed, foldVars,
                   pipeVars, procVars>>

\* tf.concat of an empty list raises: no fold of the split was in train_folds
AggregateFails ==
    /\ pc = "loop"
    /\ loop_k = Len(splits)
    /\ oof_labels = <<>>
    /\ pc' = "raised"
    /\ exc' = "tf.concat: empty list"
    /\ UNCHANGED <<config, diskVars, splits, loop_k, fitVars, oofVars,
                   oof_score, test_preds_df, resumed, foldVars,
                   pipeVars, procVars>>

\* make_inference(config, oof_models, logger) and the return of the run
Inference ==
    /\ pc = "inference"
    /\ LET df == make_inference(config, oof_models)
       IN /\ submission' = <<df>>
          /\ test_preds_df' = <<df>>
    /\ pc' = "done"
    /\ UNCHANGED <<config, dir_exists, dir_prior, config_pkl, config_json,
                   log_file, checkpoints, exc, splits, loop_k, fitVars,
                   oofVars, oof_score, resumed, foldVars,
                   pipeVars, procVars>>

----------------------------------------------------------------------------
(* load_results_make_inference(results_path), in a process of its own *)

\* the models list the loop over config.train_folds or range(K_fold) builds
LoadedModels(cfg, ckpts) ==
    LET folds == FoldList(cfg)
    IN [j \in 1..Len(folds) |-> ckpts[folds[j]]]

\* what the call does with the results directory as it is now
LoadOutcome ==
    IF ~dir_exists
    THEN [status |-> "Invalid results_path", df |-> <<>>]
    ELSE IF config_pkl = <<>>
    THEN [status |-> "FileNotFoundError: config.pkl", df |-> <<>>]
    ELSE IF \E k \in Range(FoldList(config_pkl[1])) : k \notin DOMAIN checkpoints
    THEN [status |-> "OSError: no checkpoint", df |-> <<>>]
    ELSE [status |-> "ok",
          df |-> <<make_inference(config_pkl[1],
                                  LoadedModels(config_pkl[1], checkpoints))>>]

\* keras.models.load_model on a directory that a save left half written
\* either fails or builds a model from the files that are there
LoadOutcomes ==
    IF /\ dir_exists
       /\ config_pkl # <<>>
       /\ Range(FoldList(config_pkl[1])) \subseteq DOMAIN checkpoints
       /\ Range(FoldList(config_pkl[1])) \cap partial # {}
    THEN {LoadOutcome, [status |-> "OSError: no checkpoint", df |-> <<>>]}
    ELSE {LoadOutcome}

\* called once the process of the run has ended: returned, raised or killed
load_results_make_inference ==
    /\ pc \in {"done", "raised", "killed"}
    /\ resumed = <<>>
    /\ \E outcome \in LoadOutcomes :
          /\ resumed' = <<outcome>>
          /\ submission' = IF outcome.status = "ok" THEN outcome.df
                           ELSE submission
    /\ UNCHANGED <<config, dir_exists, dir_prior, config_pkl, config_json,
                   log_file, checkpoints, pc, exc, splits, loop_k, fitVars,
                   oofVars, oof_score, test_preds_df, foldVars,
                   pipeVars, procVars>>

Next ==
    \/ RunConflict
    \/ DataFails
    \/ RunStart
    \/ SkipFold
    \/ StartFold
    \/ Epoch
    \/ TrainFails
    \/ TrainReturn
    \/ OofPredict
    \/ Aggregate
    \/ AggregateFails
    \/ Inference
    \/ load_results_make_inference

Spec == Init /\ [][Next]_vars

----------------------------------------------------------------------------
(* The fold assignment step on its own: lines 477-479 executed repeatedly  *)
(* for one (seed, N, K), other code drawing from numpy's global generator  *)
(* in between.                                                              *)

InitFold ==
    /\ config \in {c \in Configs(1..MaxSplits, Seeds, {BandpassFilter}) :
                     c.train_folds = <<>>}
    /\ train_files \in (1..MaxShards) \cup {NumTrainFiles}
    /\ dir_exists = FALSE
    /\ dir_prior = {}
    /\ InitRun

runVars == <<config, diskVars, pc, exc, splits, loop_k, fitVars, oofVars,
             oof_score, test_preds_df, resumed>>

\* kf = KFold(n_splits=config.K_fold, shuffle=True, random_state=config.seed)
\* and the list of what kf.split(data.train_files) yields
FoldAssignment ==
    /\ Len(fa_runs) < MaxRuns
    /\ fa_runs' = Append(fa_runs, KFoldSplit(train_files, config.K_fold,
                                             config.seed, np_rng.state))
    /\ UNCHANGED <<runVars, np_rng, train_files, pipeVars, procVars>>

\* np.random.* called elsewhere: the global generator moves on
UseGlobalRng ==
    /\ np_rng.draws < MaxDraws
    /\ np_rng' = [state |-> LcgNext(np_rng.state), draws |-> np_rng.draws + 1]
    /\ UNCHANGED <<runVars, fa_runs, train_files, pipeVars, procVars>>

NextFold ==
    \/ FoldAssignment
    \/ UseGlobalRng

SpecFold == InitFold /\ [][NextFold]_vars

----------------------------------------------------------------------------
(* Data.get_dataset on its own: the unshuffled datasets, as the run builds  *)
(* them for a fold's validation group (train_or_test=True) and for the      *)
(* test files (train_or_test=False).                                        *)

InitData ==
    /\ config \in {c \in Configs({MaxK}, {42}, {BandpassFilter}) :
                     c.train_folds = <<>>}
    /\ train_files = NumTrainFiles
    /\ dir_exists = FALSE
    /\ dir_prior = {}
    /\ InitRun

\* file_indices: an index array in ascending order, as a split yields it
FileIndexInputs ==
    {SortedSeq(S) : S \in SUBSET (0..(MaxShards - 1))} \ {<<>>}

\* data.get_dataset(train_or_test, shuffle=False, file_indices=file_indices)
get_dataset ==
    \E train_or_test \in BOOLEAN, file_indices \in FileIndexInputs :
        /\ ds' = <<[train_or_test |-> train_or_test, shuffle |-> FALSE,
                    file_indices |-> file_indices,
                    records |-> GetDataset(train_or_test, file_indices)]>>
        /\ UNCHANGED <<runVars, foldVars, data_filter, X, filt_out, procVars>>

\* data.get_dataset(train_or_test=False, shuffle=False): every test file
get_dataset_test ==
    /\ ds' = <<[train_or_test |-> FALSE, shuffle |-> FALSE,
                file_indices |-> AllTestFiles,
                records |-> GetDataset(FALSE, AllTestFiles)]>>
    /\ UNCHANGED <<runVars, foldVars, data_filter, X, filt_out, procVars>>

NextData ==
    \/ get_dataset
    \/ get_dataset_test

SpecData == InitData /\ [][NextData]_vars

----------------------------------------------------------------------------
(* The processes of one results path: the save of a checkpoint takes time,  *)
(* the process of a run can be terminated at any point (the notebook host   *)
(* enforces a running-time limit), and train_K_folds_make_inference can be  *)
(* called again, restricted to other folds, with the same results path.     *)

\* what a run restricted to some folds is given as train_folds
SeparateFolds == {<<>>, <<0>>, <<1>>}

InitProc ==
    /\ config \in {c \in Configs({2}, {42}, {BandpassFilter}) :
                     c.train_folds \in SeparateFolds}
    /\ train_files = NumTrainFiles
    /\ dir_exists = FALSE
    /\ dir_prior = {}
    /\ InitRun

\* an epoch of model.fit at whose end the callback finds no improvement
EpochKeeps ==
    /\ pc = "fit"
    /\ Len(history) < config.epochs
    /\ loop_k \notin partial
    /\ \E val_AUC \in 0..MaxAuc :
         /\ ~MonitorOp(val_AUC, best)
         /\ model' = <<[fold |-> loop_k, epoch |-> Len(history) + 1]>>
         /\ history' = Append(history, val_AUC)
    /\ UNCHANGED <<config, diskVars, pc, exc, splits, loop_k, best, oofVars,
                   oof_score, test_preds_df, resumed, foldVars, pipeVars,
                   procVars>>

\* an epoch at whose end the callback sets best and calls
\* model.save(checkpoint_path, overwrite=True): the files of the directory
\* are being written in place
SaveBegins ==
    /\ pc = "fit"
    /\ Len(history) < config.epochs
    /\ loop_k \notin partial
    /\ \E val_AUC \in 0..MaxAuc :
         LET w == [fold |-> loop_k, epoch |-> Len(history) + 1]
         IN /\ MonitorOp(val_AUC, best)
            /\ model' = <<w>>
            /\ history' = Append(history, val_AUC)
            /\ best' = val_AUC
            /\ checkpoints' = (loop_k :> w) @@ checkpoints
    /\ partial' = partial \cup {loop_k}
    /\ UNCHANGED <<config, dir_exists, dir_prior, config_pkl, config_json,
                   log_file, submission, pc, exc, splits, loop_k, oofVars,
                   oof_score, test_preds_df, resumed, foldVars, pipeVars,
                   invocation>>

\* model.save returns: the directory holds the whole new checkpoint
SaveEnds ==
    /\ pc = "fit"
    /\ loop_k \in partial
    /\ partial' = partial \ {loop_k}
    /\ UNCHANGED <<config, diskVars, pc, exc, splits, loop_k, fitVars, oofVars,
                   oof_score, test_preds_df, resumed, foldVars, pipeVars,
                   invocation>>

\* the process is terminated: its objects are gone, the files stay
Terminate ==
    /\ pc \in {"start", "loop", "fit", "reloaded", "inference"}
    /\ pc' = "killed"
    /\ splits' = <<>>
    /\ loop_k' = 0
    /\ model' = <<>>
    /\ best' = -1
    /\ history' = <<>>
    /\ oof_models' = <<>>
    /\ oof_model_paths' = <<>>
    /\ oof_labels' = <<>>
    /\ oof_preds' = <<>>
    /\ k_fold_scores' = <<>>
    /\ oof_score' = <<>>
    /\ data_filter' = <<>>
    /\ UNCHANGED <<config, diskVars, exc, test_preds_df, resumed, foldVars,
                   X, filt_out, ds, procVars>>

\* train_K_folds_make_inference(config) in a new process: the same
\* configuration cell (name, results_parent_path, results_path = None) with
\* another train_folds
Invoke ==
    /\ pc \in {"done", "raised", "killed"}
    /\ invocation < MaxInvocations
    /\ invocation' = invocation + 1
    /\ \E tf \in SeparateFolds :
         config' = [config EXCEPT !.results_path = "None", !.train_folds = tf]
    /\ pc' = "start"
    /\ exc' = ""
    /\ splits' = <<>>
    /\ loop_k' = 0
    /\ model' = <<>>
    /\ best' = -1
    /\ history' = <<>>
    /\ oof_models' = <<>>
    /\ oof_model_paths' = <<>>
    /\ oof_labels' = <<>>
    /\ oof_preds' = <<>>
    /\ k_fold_scores' = <<>>
    /\ oof_score' = <<>>
    /\ test_preds_df' = <<>>
    /\ data_filter' = <<>>
    /\ UNCHANGED <<diskVars, resumed, foldVars, X, filt_out, ds, partial>>

NextProc ==
    \/ RunConflict
    \/ RunStart
    \/ SkipFold
    \/ StartFold
    \/ EpochKeeps
    \/ SaveBegins
    \/ SaveEnds
    \/ TrainFails
    \/ TrainReturn
    \/ OofPredict
    \/ Aggregate
    \/ Inference
    \/ Terminate
    \/ Invoke
    \/ load_results_make_inference

SpecProc == InitProc /\ [][NextProc]_vars

----------------------------------------------------------------------------
(* SignalFilter on its own: a filter is constructed from a valid            *)
(* config.filter and Data._preprocess hands it the batches of a dataset.    *)

\* the valid filter configurations: highpass or bandpass (in two spellings),
\* each with a float or a per-channel scaling
ValidFilterInputs ==
    {BandpassFilter, HighpassFilter,
     [BandpassFilter EXCEPT !.scaling = HighpassFilter.scaling],
     [HighpassFilter EXCEPT !.scaling = BandpassFilter.scaling],
     [BandpassFilter EXCEPT !.filter_type = "BandPass"]}

\* _decode_train/_decode_test: the wave of a record, of shape (Channels, Samples)
Waveform(w) ==
    [c \in 1..Channels |-> [t \in 1..Samples |-> (w * (2 * c + t)) % (MaxWave + 2)]]

\* ds.batch(config.batch_size): the batches of 1..MaxBatch records
BatchInputs ==
    {[b \in DOMAIN ws |-> Waveform(ws[b])] :
        ws \in UNION {[1..n -> 0..MaxWave] : n \in 1..MaxBatch}}

InitFilter ==
    /\ config \in {c \in Configs({MaxK}, {42}, ValidFilterInputs) :
                     c.train_folds = <<>>}
    /\ train_files = NumTrainFiles
    /\ dir_exists = FALSE
    /\ dir_prior = {}
    /\ InitRun

\* Data.__init__: self.filter = SignalFilter(**config.filter)
DataInit ==
    /\ data_filter = <<>>
    /\ SignalFilter(config.filter).error = ""
    /\ data_filter' = <<SignalFilter(config.filter)>>
    /\ UNCHANGED <<runVars, foldVars, X, filt_out, ds, procVars>>

\* the dataset yields its next batch
NextBatch ==
    /\ X' \in BatchInputs
    /\ filt_out' = <<>>
    /\ UNCHANGED <<runVars, foldVars, data_filter, ds, procVars>>

\* Data._preprocess: X = self.filter.filt(X) on the batch; next to it, filt on
\* each record of the batch as a batch of one
Preprocess ==
    /\ data_filter # <<>>
    /\ X # <<>>
    /\ filt_out = <<>>
    /\ filt_out' = <<[batch |-> filt(data_filter[1], X),
                      single |-> [b \in DOMAIN X |-> filt(data_filter[1], <<X[b]>>)]]>>
    /\ UNCHANGED <<runVars, foldVars, data_filter, X, ds, procVars>>

NextFilter ==
    \/ DataInit
    \/ NextBatch
    \/ Preprocess

SpecFilter == InitFilter /\ [][NextFilter]_vars

----------------------------------------------------------------------------
(* Claims *)

\* The shards of the run are 0..train_files-1; the validation groups and
\* training sets of one assignment, as sets
ValGroup(a, f) == Range(a[f].val)
TrainSet(a, f) == Range(a[f].train)

\* C2: for every K >= 2 and shard count N >= K the fold assignment has K
\* validation groups in which every shard occurs exactly once (in exactly one
\* group, once in it), and the training shards of each fold are exactly the
\* shards outside that fold's validation group, each once.
C2_FoldsPartitionShards ==
    \A r \in DOMAIN fa_runs :
        (config.K_fold >= 2 /\ train_files >= config.K_fold) =>
            LET a == fa_runs[r]
                shards == 0..(train_files - 1)
            IN /\ Len(a) = config.K_fold
               /\ \A s \in shards :
                     Cardinality({f \in DOMAIN a : s \in ValGroup(a, f)}) = 1
               /\ \A f \in DOMAIN a :
                     /\ ValGroup(a, f) \subseteq shards
                     /\ Len(a[f].val) = Cardinality(ValGroup(a, f))
                     /\ TrainSet(a, f) = shards \ ValGroup(a, f)
                     /\ Len(a[f].train) = Cardinality(TrainSet(a, f))

\* an assignment was computed for a shard count that K does not divide
C2_Witness ==
    /\ fa_runs # <<>>
    /\ config.K_fold >= 2
    /\ train_files > config.K_fold
    /\ train_files % config.K_fold # 0

\* C3: executions of the fold assignment with the same seed, shard count and
\* K_fold give the identical sequence of (training shards, validation shards)
\* pairs, fold index by fold index.
C3_FoldAssignmentDeterministic ==
    \A i, j \in DOMAIN fa_runs : fa_runs[i] = fa_runs[j]

\* two executions of a valid assignment, the global generator having moved
C3_Witness ==
    /\ Len(fa_runs) >= 2
    /\ np_rng.draws >= 1
    /\ config.K_fold >= 2
    /\ train_files > config.K_fold

IsPrefix(s, t) == Len(s) <= Len(t) /\ \A i \in DOMAIN s : s[i] = t[i]

\* the earliest epoch whose val_AUC is the maximum of the history h
EarliestBest(h) ==
    CHOOSE e \in DOMAIN h :
        /\ \A j \in DOMAIN h : h[j] <= h[e]
        /\ \A j \in 1..(e - 1) : h[j] < h[e]

\* the folds of the split the run is asked to train
RequestedFolds ==
    {k \in 0..(config.K_fold - 1) :
       config.train_folds = <<>> \/ k \in Range(config.train_folds)}

\* the features of the i-th test sample in the order of sample_submission.csv
TestSampleX(i) == NumTrainFiles * RecordsPerShard + (i - 1)

\* df has one row per test sample, row i carrying sample i's id and the
\* arithmetic mean over all the models of their probability for sample i
IsMeanTable(df, models) ==
    /\ Len(models) >= 1
    /\ Len(df) = NumTestFiles * RecordsPerShard
    /\ \A i \in DOMAIN df :
          /\ df[i].id = i - 1
          /\ df[i].target.den > 0
          /\ df[i].target.num * Len(models) =
                df[i].target.den *
                SumSeq([m \in DOMAIN models |-> Predict(models[m], TestSampleX(i))])

\* C1: when the results path exists with an entry in it, the run ends in the
\* ValueError of check_save_config and leaves no partial run: no config.pkl,
\* no config.json, no log, no fold trained, no checkpoint, no submission,
\* the directory holding what it held.
C1_ConflictCreatesNoPartialRun ==
    (dir_exists /\ dir_prior # {}) =>
        /\ pc \in {"start", "raised"}
        /\ pc = "raised" => exc = "ValueError: Non-empty results directory."
        /\ dir_prior = {"prior.txt"}
        /\ config_pkl = <<>>
        /\ config_json = <<>>
        /\ ~log_file
        /\ DOMAIN checkpoints = {}
        /\ submission = <<>>
        /\ splits = <<>>
        /\ model = <<>>
        /\ history = <<>>
        /\ oof_models = <<>>
        /\ oof_score = <<>>
        /\ test_preds_df = <<>>

\* the run was started on a non-empty results path and has ended
C1_Witness ==
    /\ pc = "raised"
    /\ dir_exists
    /\ dir_prior # {}
    /\ config.results_path # "None"

\* C4: while a fold is fitted, after every epoch the fold's checkpoint holds
\* the weights of the earliest epoch that attains the maximum val_AUC so far:
\* it is written only on a strict improvement, a tie does not overwrite.
C4_CheckpointIsEarliestBest ==
    (pc = "fit" /\ history # <<>>) =>
        /\ loop_k \in DOMAIN checkpoints
        /\ checkpoints[loop_k] = [fold |-> loop_k, epoch |-> EarliestBest(history)]
        /\ best = history[EarliestBest(history)]

\* a later epoch tied the best one after a worse epoch in between
C4_Witness ==
    /\ pc = "fit"
    /\ Len(history) = 3
    /\ history[3] = history[1]
    /\ history[2] < history[1]
    /\ checkpoints[loop_k].epoch = 1

\* C5: the model train() returns for fold k is the one reloaded from fold k's
\* checkpoint after all epochs (the earliest best epoch, whatever the last
\* epoch was), and it is that model which makes fold k's out-of-fold
\* predictions and enters test inference.
C5_ReturnedModelIsBestCheckpoint ==
    /\ [][(pc = "fit" /\ pc' = "reloaded") =>
            /\ Len(history) = config.epochs
            /\ model' = <<[fold |-> loop_k, epoch |-> EarliestBest(history)]>>
            /\ oof_models' = Append(oof_models, model'[1])]_vars
    /\ [](/\ \A i \in DOMAIN oof_models :
               oof_models[i] = checkpoints[oof_model_paths[i]]
          /\ \A i \in DOMAIN oof_preds :
               LET val_data == GetDataset(TRUE, splits[oof_model_paths[i] + 1].val)
               IN oof_preds[i] =
                    [n \in 1..Len(val_data) |->
                       Predict(checkpoints[oof_model_paths[i]], val_data[n].x)]
          /\ test_preds_df # <<>> =>
               test_preds_df[1] =
                 make_inference(config,
                                [i \in DOMAIN oof_models |->
                                   checkpoints[oof_model_paths[i]]]))

\* a run has finished in which some fold's last epoch was not its best
C5_Witness ==
    /\ pc = "done"
    /\ \E i \in DOMAIN oof_models : oof_models[i].epoch < config.epochs

\* C6: once training of a fold has failed the run has ended with that
\* failure: no further fold is trained, nothing more is appended, no
\* aggregate score is computed, the run returns no table, and a submission
\* on disk can only come from a separate load_results_make_inference.
C6_TrainingFailureAbortsRun ==
    /\ [](exc = "TrainingFailure" =>
            /\ pc = "raised"
            /\ oof_score = <<>>
            /\ test_preds_df = <<>>
            /\ submission # <<>> => resumed # <<>>)
    /\ [][exc = "TrainingFailure" =>
            UNCHANGED <<pc, exc, loop_k, model, history, checkpoints, oofVars,
                        oof_score, test_preds_df>>]_vars

\* training failed in a fold that is not the last, after a fold had completed
C6_Witness ==
    /\ exc = "TrainingFailure"
    /\ oof_models # <<>>
    /\ loop_k + 1 < Len(splits)

\* C7: the out-of-fold lists only grow, by one block per completed fold; the
\* aggregate score is set once, and when it is set every requested fold of
\* the split has been trained, reloaded and scored, and it is the score of
\* the concatenation of all their blocks.
C7_OofAppendOnlyScoredOnce ==
    /\ [][/\ IsPrefix(oof_labels, oof_labels')
          /\ IsPrefix(oof_preds, oof_preds')
          /\ IsPrefix(k_fold_scores, k_fold_scores')
          /\ Len(oof_labels') <= Len(oof_labels) + 1
          /\ Len(oof_preds') = Len(oof_labels')
          /\ oof_score # <<>> => oof_score' = oof_score]_vars
    /\ [](oof_score # <<>> =>
            /\ pc \in {"inference", "done"}
            /\ loop_k = config.K_fold
            /\ oof_model_paths = SortedSeq(RequestedFolds)
            /\ Len(oof_models) = Cardinality(RequestedFolds)
            /\ Len(oof_labels) = Cardinality(RequestedFolds)
            /\ Len(k_fold_scores) = Cardinality(RequestedFolds)
            /\ oof_score[1] = get_score(Flatten(oof_labels), Flatten(oof_preds)))

\* a run of at least two folds has been scored
C7_Witness ==
    /\ oof_score # <<>>
    /\ Len(oof_labels) >= 2

\* the blocks of bs in the order given by the permutation perm
Permuted(bs, perm) == [i \in DOMAIN bs |-> bs[perm[i]]]

\* C8: the aggregate score is the same whatever the order in which the
\* folds' (labels, predictions) blocks are concatenated.
C8_ScoreInvariantToFoldOrder ==
    pc = "inference" =>
        \A perm \in Permutations(DOMAIN oof_labels) :
            get_score(Flatten(Permuted(oof_labels, perm)),
                      Flatten(Permuted(oof_preds, perm))) = oof_score[1]

\* a score that is neither 0 nor 1 over at least two different blocks
C8_Witness ==
    /\ pc = "inference"
    /\ Len(oof_preds) >= 2
    /\ oof_preds[1] # oof_preds[2]
    /\ oof_score[1].num # 0
    /\ oof_score[1].num # oof_score[1].den

\* C9: make_inference gives one row per test sample, whose target is the
\* arithmetic mean over the models it was given of their probabilities for
\* that sample; both for the run's own call and for the call from
\* load_results_make_inference.
C9_SubmissionIsMeanOverModels ==
    /\ test_preds_df # <<>> =>
          /\ IsMeanTable(test_preds_df[1], oof_models)
          /\ submission # <<>>
    /\ (resumed # <<>> /\ resumed[1].status = "ok") =>
          /\ IsMeanTable(resumed[1].df[1], LoadedModels(config_pkl[1], checkpoints))
          /\ submission = resumed[1].df

\* both calls were made, each with at least two models, and some mean is no
\* whole number
C9_Witness ==
    /\ test_preds_df # <<>>
    /\ Len(oof_models) >= 2
    /\ resumed # <<>>
    /\ resumed[1].status = "ok"
    /\ \E i \in DOMAIN test_preds_df[1] : test_preds_df[1][i].target.den # 1

\* C10: after a completed run, load_results_make_inference on its results
\* path succeeds and gives the table the run's own make_inference gave.
C10_ResumedInferenceReproducesRun ==
    (pc = "done" /\ resumed # <<>>) =>
        /\ resumed[1].status = "ok"
        /\ resumed[1].df = test_preds_df

\* C11: make_inference never gives a table when the number of models it is
\* given differs from the length of the configured fold list
\* (config.train_folds, or range(K_fold) when it is empty): neither the run's
\* own call nor the call of load_results_make_inference, whose models are the
\* persisted checkpoints, averages over fewer or more models than that.
C11_MismatchedModelCountFails ==
    /\ test_preds_df # <<>> => Len(oof_models) = Len(FoldList(config))
    /\ (resumed # <<>> /\ resumed[1].status = "ok") =>
          Cardinality(DOMAIN checkpoints) = Len(FoldList(config_pkl[1]))

\* the records of the files file_indices in shard order: file after file,
\* the records of one file in the order the file holds them
ShardOrder(train_or_test, file_indices) ==
    Flatten([i \in DOMAIN file_indices |->
               [r \in 1..RecordsPerShard |->
                  IF train_or_test THEN TrainRecord(file_indices[i], r - 1)
                  ELSE TestRecord(file_indices[i], r - 1)]])

\* C12: every unshuffled dataset, whether built with train_or_test=True (a
\* fold's validation group) or with train_or_test=False (test), yields its
\* records in shard order, no record of one shard between two records of
\* another, whatever number of parallel reads the pipeline uses.
C12_UnshuffledReadsKeepShardOrder ==
    ds # <<>> =>
        ds[1].records = ShardOrder(ds[1].train_or_test, ds[1].file_indices)

\* C13: a fold's checkpoint is never partially written: when the process of
\* a run has been terminated, at whatever point, no checkpoint path holds a
\* half-written checkpoint, and load_results_make_inference never loads one.
C13_CheckpointNeverPartial ==
    /\ pc = "killed" => partial = {}
    /\ (resumed # <<>> /\ resumed[1].status = "ok") =>
          Range(FoldList(config_pkl[1])) \cap partial = {}

\* C14: the folds of one run can be trained by separate calls of
\* train_K_folds_make_inference on the same results path: after a call that
\* ran to its end, a later call restricted to folds that have no checkpoint
\* yet is not refused because of what the earlier call wrote there, so that
\* load_results_make_inference finds the checkpoints of all the calls under
\* the one path.
C14_FoldsTrainedInSeparateInvocations ==
    (/\ invocation >= 2
     /\ pc = "raised"
     /\ submission # <<>>
     /\ resumed = <<>>
     /\ partial = {}
     /\ config.train_folds # <<>>
     /\ Range(config.train_folds) \cap DOMAIN checkpoints = {}) =>
        exc # "ValueError: Non-empty results directory."

\* C15: for every batch and every valid filter configuration, filt on the
\* batch is the concatenation, in batch order, of filt on each record as a
\* batch of one: a record's result depends neither on the other records of
\* its batch nor on its position in the batch.
C15_BatchFiltEqualsPerRecordFilt ==
    filt_out # <<>> =>
        /\ Len(filt_out[1].batch) = Len(X)
        /\ \A b \in DOMAIN X :
              /\ Len(filt_out[1].single[b]) = 1
              /\ filt_out[1].batch[b] = filt_out[1].single[b][1]

\* a batch of two different records whose results differ was filtered with
\* a per-channel scaling
C15_Witness ==
    /\ filt_out # <<>>
    /\ Len(X) >= 2
    /\ X[1] # X[2]
    /\ filt_out[1].batch[1] # filt_out[1].batch[2]
    /\ data_filter[1].scaling.type = "ndarray"
    /\ \E c \in 1..Channels, t \in 1..Samples : filt_out[1].batch[2][c][t] # 0

\* C16: a config.filter whose filter_type is neither highpass nor bandpass,
\* or which is bandpass without f_hi, makes the construction of the
\* SignalFilter fail, so the run gets no dataset pipeline and ends with that
\* error; and when it does, nothing has been written under the results path:
\* no config.pkl, no config.json, no log file.
C16_InvalidFilterFailsBeforeIO ==
    /\ (pc # "start" /\ SignalFilter(config.filter).error # "") =>
          /\ pc = "raised"
          /\ data_filter = <<>>
          /\ splits = <<>>
    /\ (pc = "raised" /\ exc = SignalFilter(config.filter).error) =>
          /\ config_pkl = <<>>
          /\ config_json = <<>>
          /\ ~log_file

\* C17: from the call of train_K_folds_make_inference on, no field of the
\* config object changes (results_path and filter.scaling included), and
\* the config pickled into config.pkl equals the config object the run goes
\* on to use.
C17_ConfigNeverMutated ==
    [][/\ config' = config
       /\ config_pkl' # <<>> => config_pkl'[1] = config']_vars

\* where fold k stands in the run: 0 NotStarted, 1 Training (its fit runs,
\* or has failed, with no checkpoint of its own yet), 2 BestCheckpointed
\* (its fit has written a checkpoint), 3 Reloaded (train() has returned the
\* reloaded model), 4 Scored (its out-of-fold block is appended)
FoldState(k) ==
    IF \E i \in DOMAIN oof_model_paths : oof_model_paths[i] = k
    THEN LET i == CHOOSE j \in DOMAIN oof_model_paths : oof_model_paths[j] = k
         IN IF Len(oof_preds) >= i THEN 4 ELSE 3
    ELSE IF loop_k = k /\ (pc = "fit" \/ exc = "TrainingFailure")
    THEN IF history # <<>> THEN 2 ELSE 1
    ELSE 0

\* C18: every fold goes through NotStarted, Training, BestCheckpointed,
\* Reloaded, Scored in that order, one state at a time and never back; at
\* most one fold is between NotStarted and Scored; a fold starts Training
\* only when every requested fold before it is Scored; its model is reloaded
\* only when its fit has run all its epochs and its checkpoint is on disk;
\* its out-of-fold predictions are those of the reloaded model; and when the
\* run is scored every requested fold is Scored.
C18_FoldLifecycleInOrder ==
    /\ [][\A k \in 0..(config.K_fold - 1) :
            /\ FoldState(k)' \in {FoldState(k), FoldState(k) + 1}
            /\ (FoldState(k) = 0 /\ FoldState(k)' = 1) =>
                  \A j \in RequestedFolds : j < k => FoldState(j) = 4
            /\ (FoldState(k) = 2 /\ FoldState(k)' = 3) =>
                  /\ Len(history) = config.epochs
                  /\ k \in DOMAIN checkpoints
                  /\ checkpoints[k].fold = k
                  /\ model' = <<checkpoints[k]>>
            /\ (FoldState(k) = 3 /\ FoldState(k)' = 4) =>
                  LET val_data == GetDataset(TRUE, splits[k + 1].val)
                  IN /\ model = <<checkpoints[k]>>
                     /\ oof_preds' =
                          Append(oof_preds,
                                 [n \in 1..Len(val_data) |->
                                    Predict(model[1], val_data[n].x)])]_vars
    /\ [](/\ Cardinality({k \in 0..(config.K_fold - 1) :
                            FoldState(k) \in {1, 2, 3}}) <= 1
          /\ \A k \in 0..(config.K_fold - 1) :
                FoldState(k) # 0 => k \in RequestedFolds
          /\ oof_score # <<>> =>
                \A k \in RequestedFolds : FoldState(k) = 4)

\* a run has finished in which a fold was skipped and two folds were Scored
C18_Witness ==
    /\ pc = "done"
    /\ Cardinality({k \in 0..(config.K_fold - 1) : FoldState(k) = 4}) >= 2
    /\ \E k \in 0..(config.K_fold - 1) : FoldState(k) = 0

\* C19: when make_inference has run, it has paired every model with a fold
\* index, and the fold index it paired with (and reported for) each model is
\* the index of the fold that trained that model: the fold list it iterated
\* is in the order of the models list the training loop built, whatever
\* config.train_folds is.
C19_InferencePairsModelWithItsFold ==
    pc = "done" =>
        LET pairs == ZipFolds(config, oof_models)
        IN /\ Len(pairs) = Len(oof_models)
           /\ \A j \in DOMAIN pairs :
                 /\ pairs[j].k = oof_model_paths[j]
                 /\ pairs[j].k = pairs[j].model.fold

\* C20: after a completed run, the folds that were trained and checkpointed
\* are all the folds when train_folds is empty and otherwise the entries of
\* train_folds below K_fold, and they are exactly the folds whose checkpoint
\* load_results_make_inference will ask for, going by the pickled config.
C20_TrainedFoldsAreLoadedFolds ==
    pc = "done" =>
        /\ Range(oof_model_paths) = RequestedFolds
        /\ DOMAIN checkpoints = RequestedFolds
        /\ Range(FoldList(config_pkl[1])) = DOMAIN checkpoints

====
